---- MODULE Spec2Model ----
(***************************************************************************)
(* State-machine model of src/parse_polrkrf.py: the crawl controller       *)
(* main() with the listing extractor, the detail extractor, the image      *)
(* materializer and the metadata sink it drives.                           *)
(*                                                                         *)
(* Text is modelled as sequences of one-character strings (URLs) or of     *)
(* words (labels, content types), so that the string operations of the     *)
(* source (split, rstrip, substring tests) are computed, not assumed.      *)
(* A URL is written from its path on: the origin "https://polkrf.ru" that  *)
(* urljoin puts in front of every href is left out.                        *)
(***************************************************************************)
EXTENDS Naturals, Sequences, FiniteSets

VARIABLES
    pc,                \* position of main(): "start", "page", "cand", "download", "next", "done", "aborted"
    downloaded_count,  \* main: downloaded_count
    seen_urls,         \* main: seen_urls
    page_num,          \* main: page_num
    entries,           \* main: entries of the current listing page
    idx,               \* position of the for loop in entries (1-based)
    details,           \* main: details of the candidate being processed
    metadata,          \* rows of the file METADA_FILE, in file order
    table0,            \* history: METADA_FILE as the run found it, after the header step
    files,             \* names of the files written to IMAGES_DIR by this run
    delays,            \* number of time.sleep(DELAY_BETWEEN_REQUESTS_SECONDS) calls so far
    requested,         \* history: page numbers requested, in request order
    lastPage,          \* history: outcome of the latest listing request
    attempted,         \* history: per image URL, the candidates that passed the seen-set test
    last,              \* history: the latest candidate that passed the seen-set test
    saves,             \* history: the candidates whose image was saved, in save order
    netLog,            \* history: outbound requests and delays since the latest listing request
    arg,               \* the input of a function applied on its own (extractors, id extraction)
    result             \* its result

vars == <<pc, downloaded_count, seen_urls, page_num, entries, idx, details,
          metadata, table0, files, delays, requested, lastPage, attempted, last, saves, netLog,
          arg, result>>

\* The variables main() does not touch.
applied == <<arg, result>>

(***************************************************************************)
(* Bounds of the model.                                                    *)
(***************************************************************************)
\* The quota. The source sets MAX_IMAGES = 100 (line 23); the model keeps
\* the comparisons of the source and runs them against a small quota.
MAX_IMAGES == 2
\* Listing pages requested before the model stops exploring.
MaxPage == 3
\* Card anchors on one listing document.
MaxAnchors == 2

(***************************************************************************)
(* Sequence helpers.                                                       *)
(***************************************************************************)
Last(s) == s[Len(s)]

SeqsUpTo(S, n) == UNION {[1..k -> S] : k \in 0..n}

(***************************************************************************)
(* Text: characters, splitting, stripping.                                 *)
(***************************************************************************)
DigitChars == {"0", "1", "2", "3", "4", "5", "6", "7", "8", "9"}

\* Index of the first c in s at or after position from, 0 when there is none
\* (str.find with 1-based positions).
FindFrom(s, c, from) ==
    LET hits == {i \in from..Len(s) : s[i] = c}
    IN  IF hits = {} THEN 0 ELSE CHOOSE i \in hits : \A j \in hits : i <= j

\* Index of the last c in s, 0 when there is none (str.rfind).
RFind(s, c) ==
    LET hits == {i \in 1..Len(s) : s[i] = c}
    IN  IF hits = {} THEN 0 ELSE CHOOSE i \in hits : \A j \in hits : j <= i

\* s up to, not including, the first c (s.split(c, 1)[0]).
Before(s, c) ==
    LET i == FindFrom(s, c, 1)
    IN  IF i = 0 THEN s ELSE SubSeq(s, 1, i - 1)

\* s.rstrip(c)
RECURSIVE RStrip(_, _)
RStrip(s, c) ==
    IF s # <<>> /\ s[Len(s)] = c THEN RStrip(SubSeq(s, 1, Len(s) - 1), c) ELSE s

\* s.split(c)[-1]
LastPart(s, c) == SubSeq(s, RFind(s, c) + 1, Len(s))

\* urlparse(url).path: the fragment, then the query, then the parameters of
\* the last segment are split off.
UrlPath(url) ==
    LET noFragment == Before(url, "#")
        noQuery    == Before(noFragment, "?")
        semi       == FindFrom(noQuery, ";", IF RFind(noQuery, "/") = 0 THEN 1 ELSE RFind(noQuery, "/"))
    IN  IF semi = 0 THEN noQuery ELSE SubSeq(noQuery, 1, semi - 1)

\* extract_card_id returns None as the empty sequence: every caller tests
\* the result for truthiness only.
NoId == <<>>

\* Variant: the part after the last hyphen is returned as it is.
extract_card_id_tail(card_url) ==
    LET path == RStrip(UrlPath(card_url), "/")
    IN  IF path = <<>> THEN NoId ELSE LastPart(LastPart(path, "/"), "-")

extract_card_id(card_url) ==
    LET path         == RStrip(UrlPath(card_url), "/")
        last_segment == LastPart(path, "/")
        tail         == LastPart(last_segment, "-")
        digits       == SelectSeq(tail, LAMBDA ch : ch \in DigitChars)
    IN  IF path = <<>> THEN NoId ELSE digits

(***************************************************************************)
(* Fetch client: what http_get gives its caller, a response or an          *)
(* exception (after the session's retries).                                *)
(***************************************************************************)
HttpError == [status |-> "error"]

HttpOk(body) == [status |-> "ok", body |-> body]

(***************************************************************************)
(* Listing extractor.                                                      *)
(*                                                                         *)
(* A listing document is the sequence of its a.b-veteran-card anchors. An  *)
(* anchor has its href (empty when the attribute is missing or blank) and  *)
(* its img: the src attribute of its img.b-veteran-card__img, of form      *)
(* "relative" or "absolute", "blank" when the attribute is missing or      *)
(* blank, "none" when the anchor holds no such img.                        *)
(***************************************************************************)
PLACEHOLDER_URL == "veteran_card_placeholder.jpg"

ImageUrls == {"i1", "i2", "i3"}

CardA    == <<"/", "a", "-", "1">>
CardB    == <<"/", "b", "-", "2", "/">>
CardNoId == <<"/", "u">>
\* A second card whose URL ends in the number of CardA.
CardC    == <<"/", "c", "-", "1">>

\* The card of a row left by an earlier run.
CardOld  == <<"/", "o", "-", "9">>

CardUrls == {CardA, CardB, CardC, CardNoId, CardOld}

\* extract_card_id on the card URLs of the listings (and on no URL at all),
\* computed once.
card_id_of == [card_url \in CardUrls \cup {<<>>} |-> extract_card_id(card_url)]

Src(form, path) == [form |-> form, path |-> path]

Anchor(href, img) == [href |-> href, img |-> img]

Anchors ==
    { Anchor(CardA, Src("relative", "i1")),
      Anchor(CardB, Src("absolute", "i2")),
      Anchor(CardNoId, Src("relative", "i3")),
      Anchor(CardA, Src("relative", PLACEHOLDER_URL)) }

Documents == SeqsUpTo(Anchors, MaxAnchors)

ListingResponses == {HttpError} \cup {HttpOk(doc) : doc \in Documents}

\* urljoin(BASE_URL, src) of an image src: a relative and an absolute src
\* of the same resource resolve to the same absolute URL.
ResolveSrc(src) == src.path

\* The test of one anchor in fetch_image_urls_from_page: TRUE when the
\* anchor yields an entry.
YieldsEntry(anchor) ==
    /\ anchor.href # <<>>
    /\ anchor.img.form # "none"
    /\ anchor.img.form # "blank"
    /\ ResolveSrc(anchor.img) # PLACEHOLDER_URL

EntryOf(anchor) == [img_url |-> ResolveSrc(anchor.img), card_url |-> anchor.href]

\* Variant: the first anchor that yields no entry ends the loop.
RECURSIVE fetch_image_urls_from_page_break(_)
fetch_image_urls_from_page_break(doc) ==
    IF doc = <<>> \/ ~YieldsEntry(Head(doc)) THEN <<>>
    ELSE <<EntryOf(Head(doc))>> \o fetch_image_urls_from_page_break(Tail(doc))

RECURSIVE fetch_image_urls_from_page(_)
fetch_image_urls_from_page(doc) ==
    IF doc = <<>> THEN <<>>
    ELSE (IF YieldsEntry(Head(doc)) THEN <<EntryOf(Head(doc))>> ELSE <<>>)
         \o fetch_image_urls_from_page(Tail(doc))

(***************************************************************************)
(* Detail extractor.                                                       *)
(*                                                                         *)
(* A detail document is what the selectors of fetch_card_details find in   *)
(* it: the name, the label/value items of the info block (a label is its   *)
(* words, the Russian labels transliterated), the operations, the          *)
(* biography and the rewards, each "" when its markup is absent.           *)
(***************************************************************************)
LowerWord(w) ==
    CASE w = "Data"  -> "data"
      [] w = "Mesto" -> "mesto"
      [] OTHER       -> w

\* label.lower()
Lower(label) == [k \in 1..Len(label) |-> LowerWord(label[k])]

\* phrase in text, both sequences of words
Contains(text, phrase) ==
    \E k \in 0..Len(text) :
        /\ k + Len(phrase) <= Len(text)
        /\ SubSeq(text, k + 1, k + Len(phrase)) = phrase

Item(label, value) == [label |-> label, value |-> value]

\* Variant: a field that already has a value is not assigned again.
ApplyItemKeepFirst(d, item) ==
    LET ll == Lower(item.label)
        Set(field) == IF d[field] = "" THEN [d EXCEPT ![field] = item.value] ELSE d
    IN  IF item.label = <<>> \/ item.value = "" THEN d
        ELSE IF Contains(ll, <<"data", "rozhdeniya">>) THEN Set("birth_date")
        ELSE IF Contains(ll, <<"mesto", "rozhdeniya">>) THEN Set("birth_place")
        ELSE IF Contains(ll, <<"data", "smerti">>) THEN Set("death_date")
        ELSE IF Contains(ll, <<"mesto", "smerti">>) \/ Contains(ll, <<"mesto", "gibeli">>)
             THEN Set("death_place")
        ELSE d

\* One pass of the loop over div.b-text-info items (lines 106-121).
ApplyItem(d, item) ==
    LET ll == Lower(item.label)
    IN  IF item.label = <<>> \/ item.value = "" THEN d
        ELSE IF Contains(ll, <<"data", "rozhdeniya">>) THEN [d EXCEPT !.birth_date = item.value]
        ELSE IF Contains(ll, <<"mesto", "rozhdeniya">>) THEN [d EXCEPT !.birth_place = item.value]
        ELSE IF Contains(ll, <<"data", "smerti">>) THEN [d EXCEPT !.death_date = item.value]
        ELSE IF Contains(ll, <<"mesto", "smerti">>) \/ Contains(ll, <<"mesto", "gibeli">>)
             THEN [d EXCEPT !.death_place = item.value]
        ELSE d

RECURSIVE ApplyItems(_, _)
ApplyItems(d, items) ==
    IF items = <<>> THEN d ELSE ApplyItems(ApplyItem(d, Head(items)), Tail(items))

\* The dict fetch_card_details starts from (lines 75-85).
InitialDetails(card_url) ==
    [ card_id      |-> card_id_of[card_url],
      veteran_name |-> "",
      birth_date   |-> "",
      birth_place  |-> "",
      death_date   |-> "",
      death_place  |-> "",
      operations   |-> "",
      biography    |-> "",
      rewards      |-> "" ]

\* The body of a detail document, parsed (lines 93-159).
ParseDetails(card_url, doc) ==
    [ ApplyItems(InitialDetails(card_url), doc.items)
        EXCEPT !.veteran_name = doc.name,
               !.operations   = doc.operations,
               !.biography    = doc.biography,
               !.rewards      = doc.rewards ]

fetch_card_details(card_url, resp) ==
    IF resp.status = "error" THEN InitialDetails(card_url)
    ELSE ParseDetails(card_url, resp.body)

DetailDoc(name, items, operations, biography, rewards) ==
    [ name |-> name, items |-> items, operations |-> operations,
      biography |-> biography, rewards |-> rewards ]

DetailDocs ==
    { DetailDoc("Ivanov Ivan",
                << Item(<<"Data", "rozhdeniya">>, "1920"),
                   Item(<<"Mesto", "gibeli">>, "Kursk"),
                   Item(<<"Data", "rozhdeniya">>, "1921") >>,
                "Kursk; Berlin", "bio", "medal") }

DetailResponses == {HttpError} \cup {HttpOk(doc) : doc \in DetailDocs}

(***************************************************************************)
(* Image materializer.                                                     *)
(*                                                                         *)
(* A content type is the sequence of the words of the Content-Type header, *)
(* empty when the header is missing.                                       *)
(***************************************************************************)
LowerType(w) == IF w = "IMAGE" THEN "image" ELSE w

ContentTypes ==
    { <<"text", "html">>, <<"IMAGE", "png">> }

\* The body of an image response: its header and whether open/write of the
\* output file succeeds.
ImageBody(ctype, writable) == [ctype |-> ctype, writable |-> writable]

ImageResponses ==
    {HttpError} \cup {HttpOk(ImageBody(c, w)) : c \in ContentTypes, w \in BOOLEAN}

content_type(resp) == [k \in 1..Len(resp.body.ctype) |-> LowerType(resp.body.ctype[k])]

\* Variant: no validation of the content type.
IsImageUnchecked(resp) == TRUE

\* The content-type validation (line 277): TRUE when the response passes.
IsImage(resp) == Contains(content_type(resp), <<"image">>)

\* Variant: the content type is not looked at.
ExtensionDefault(resp) == ".jpg"

\* The extension chosen by content type (lines 282-288).
Extension(resp) ==
    LET ct == content_type(resp)
    IN  IF Contains(ct, <<"png">>) THEN ".png"
        ELSE IF Contains(ct, <<"webp">>) THEN ".webp"
        ELSE ".jpg"

\* Variant: the file is not named after the basename given.
FileNameFixed(out_basename, resp) == [basename |-> <<"0">>, ext |-> Extension(resp)]

FileName(out_basename, resp) == [basename |-> out_basename, ext |-> Extension(resp)]

\* What download_image does with a response: "fetch_failed", "not_image",
\* "write_failed" (each returns False) or "saved" (returns True).
download_image(resp) ==
    IF resp.status = "error" THEN "fetch_failed"
    ELSE IF ~IsImage(resp) THEN "not_image"
    ELSE IF ~resp.body.writable THEN "write_failed"
    ELSE "saved"

(***************************************************************************)
(* Metadata sink: the rows of METADA_FILE.                                 *)
(***************************************************************************)
HeaderRow ==
    << "card_id", "veteran_name", "birth_date", "birth_place", "death_date",
       "death_place", "operations", "biography", "rewards" >>

\* The row main writes for a details dict (lines 371-383).
RowOf(d) ==
    << d.card_id, d.veteran_name, d.birth_date, d.birth_place, d.death_date,
       d.death_place, d.operations, d.biography, d.rewards >>

OldRow == RowOf([InitialDetails(CardOld) EXCEPT !.veteran_name = "Old"])

\* METADA_FILE as a run can find it: missing or empty, or left by an earlier run.
InitialTables == { <<>>, <<HeaderRow, OldRow>> }

(***************************************************************************)
(* Crawl controller: the control flow of main().                           *)
(***************************************************************************)
\* The test of the while loop (line 332): where main goes from it.
WhileTest(count) == IF count < MAX_IMAGES THEN "page" ELSE "done"

\* Variant: the for body without the quota test.
ForBreakNever(count) == FALSE

\* The quota test at the head of the for body (lines 344-345).
ForBreak(count) == count >= MAX_IMAGES

\* After the for loop (line 390): on to the next page, or back to the while test.
AfterFor(count) == IF count < MAX_IMAGES THEN "next" ELSE WhileTest(count)

\* Variant: a page without candidates ends the crawl.
ForNextStopOnEmpty(count, ents, i) ==
    IF ents = <<>> THEN "done"
    ELSE IF i <= Len(ents) /\ ~ForBreak(count) THEN "cand" ELSE AfterFor(count)

\* The head of the for loop for position i of ents (lines 343-345).
ForNext(count, ents, i) ==
    IF i <= Len(ents) /\ ~ForBreak(count) THEN "cand" ELSE AfterFor(count)

\* Variant: the exception of http_get is not caught and leaves main.
AfterDetailsUncaught(resp) == IF resp.status = "error" THEN "aborted" ELSE "download"

\* Variant: a failed detail request ends the work on the page.
AfterDetailsSkip(resp) == IF resp.status = "error" THEN "next" ELSE "download"

\* Where main is after fetch_card_details returned (lines 87-91, 358-360):
\* an exception of http_get is caught there, and main goes on to the image.
AfterDetails(resp) == "download"

\* Variant: the failed page is requested again.
PageAfterFailureRetry(n) == n

\* The page number after a listing request that raised (line 339).
PageAfterFailure(n) == n + 1

\* The membership test on the seen set (line 346).
Seen(img_url, seen) == img_url \in seen

\* Variant: the image URL is not recorded.
SeenAddForgotten(seen, img_url) == seen

\* The insertion into the seen set (line 349).
SeenAdd(seen, img_url) == seen \cup {img_url}

\* Variant: the row is written whether or not the image was saved.
RowsAfterAnyAttempt(table, saved, row_written, d) ==
    IF row_written THEN Append(table, RowOf(d)) ELSE table

\* Variant: the new row is put in front of the rows of the run.
RowsAfterInFront(table, saved, row_written, d) ==
    IF saved /\ row_written
    THEN SubSeq(table, 1, Len(table0)) \o <<RowOf(d)>> \o SubSeq(table, Len(table0) + 1, Len(table))
    ELSE table

\* METADA_FILE after lines 362-385: the row is appended when the image was
\* saved and the write of the row succeeds.
RowsAfter(table, saved, row_written, d) ==
    IF saved /\ row_written THEN Append(table, RowOf(d)) ELSE table

\* Variant: the header is written without looking at the file.
HeaderAfterAlways(table, writable) ==
    IF writable THEN Append(table, HeaderRow) ELSE table

\* METADA_FILE after lines 309-330: the header row is written when the file
\* is missing or empty (need_header) and the write succeeds.
HeaderAfter(table, writable) ==
    IF table = <<>> /\ writable THEN <<HeaderRow>> ELSE table

\* Variant: every attempt is counted.
CountAfterAnyAttempt(count, saved) == count + 1

\* downloaded_count after download_image returned (lines 362-363).
CountAfter(count, saved) == IF saved THEN count + 1 ELSE count

\* History: the network log restarts at each listing request, keeping the
\* event before it.
LogPage(log) == (IF log = <<>> THEN <<>> ELSE <<Last(log)>>) \o <<"page">>

Attempt(entry, card_id) ==
    [ img_url |-> entry.img_url, card_id |-> card_id, detail |-> "none",
      image |-> "none", ctype |-> <<>>, meta |-> "none",
      record |-> InitialDetails(entry.card_url) ]

Init ==
    /\ pc = "start"
    /\ downloaded_count = 0
    /\ seen_urls = {}
    /\ page_num = 1
    /\ entries = <<>>
    /\ idx = 1
    /\ details = InitialDetails(<<>>)
    /\ metadata \in InitialTables
    /\ table0 = metadata
    /\ files = {}
    /\ delays = 0
    /\ requested = <<>>
    /\ lastPage = "none"
    /\ attempted = [u \in ImageUrls |-> 0]
    /\ last = Attempt([img_url |-> "", card_url |-> <<>>], NoId)
    /\ saves = <<>>
    /\ netLog = <<>>
    /\ arg = <<>>
    /\ result = <<>>

\* Lines 308-330: the header row, when the file is missing or empty; a
\* failure to write it is logged and the run goes on.
PrepareHeader ==
    /\ pc = "start"
    /\ \E writable \in BOOLEAN : metadata' = HeaderAfter(metadata, writable)
    /\ table0' = metadata'
    /\ pc' = WhileTest(downloaded_count)
    /\ UNCHANGED <<downloaded_count, seen_urls, page_num, entries, idx, details,
                   files, delays, requested, lastPage, attempted, last, saves, netLog>>
    /\ UNCHANGED applied

\* Lines 333-340: the listing request of page_num raises.
FetchPageFailed ==
    /\ pc = "page"
    /\ page_num <= MaxPage
    /\ requested' = Append(requested, page_num)
    /\ lastPage' = "error"
    /\ netLog' = LogPage(netLog) \o <<"delay">>
    /\ delays' = delays + 1
    /\ page_num' = PageAfterFailure(page_num)
    /\ pc' = WhileTest(downloaded_count)
    /\ UNCHANGED <<downloaded_count, seen_urls, entries, idx, details, metadata,
                   table0, files, attempted, last, saves>>
    /\ UNCHANGED applied

\* Lines 333-334, 343: the listing request of page_num succeeds, with an
\* answer among responses.
FetchListing(responses) ==
    /\ pc = "page"
    /\ page_num <= MaxPage
    /\ \E resp \in responses :
          /\ resp.status = "ok"
          /\ entries' = fetch_image_urls_from_page(resp.body)
    /\ idx' = 1
    /\ requested' = Append(requested, page_num)
    /\ lastPage' = "ok"
    /\ netLog' = LogPage(netLog)
    /\ pc' = ForNext(downloaded_count, entries', 1)
    /\ UNCHANGED <<downloaded_count, seen_urls, page_num, details, metadata,
                   table0, files, delays, attempted, last, saves>>
    /\ UNCHANGED applied

FetchPage == FetchListing(ListingResponses)

\* Lines 346-348: the image URL is in the seen set.
SkipDuplicate ==
    /\ pc = "cand"
    /\ Seen(entries[idx].img_url, seen_urls)
    /\ idx' = idx + 1
    /\ pc' = ForNext(downloaded_count, entries, idx + 1)
    /\ UNCHANGED <<downloaded_count, seen_urls, page_num, entries, details,
                   metadata, table0, files, delays, requested, lastPage, attempted,
                   last, saves, netLog>>
    /\ UNCHANGED applied

\* Lines 349-355: the detail URL yields no id.
SkipNoId ==
    /\ pc = "cand"
    /\ ~Seen(entries[idx].img_url, seen_urls)
    /\ seen_urls' = SeenAdd(seen_urls, entries[idx].img_url)
    /\ card_id_of[entries[idx].card_url] = NoId
    /\ attempted' = [attempted EXCEPT ![entries[idx].img_url] = @ + 1]
    /\ last' = Attempt(entries[idx], NoId)
    /\ delays' = delays + 1
    /\ netLog' = Append(netLog, "delay")
    /\ idx' = idx + 1
    /\ pc' = ForNext(downloaded_count, entries, idx + 1)
    /\ UNCHANGED <<downloaded_count, page_num, entries, details, metadata,
                   table0, files, requested, lastPage, saves>>
    /\ UNCHANGED applied

\* Lines 349-360: a new candidate with an id; its detail page is requested.
FetchCardDetails ==
    /\ pc = "cand"
    /\ ~Seen(entries[idx].img_url, seen_urls)
    /\ seen_urls' = SeenAdd(seen_urls, entries[idx].img_url)
    /\ LET card_id == card_id_of[entries[idx].card_url]
       IN  /\ card_id # NoId
           /\ \E resp \in DetailResponses :
                 LET d == fetch_card_details(entries[idx].card_url, resp)
                     record == IF d.card_id = NoId THEN [d EXCEPT !.card_id = card_id] ELSE d
                 IN  /\ details' = record
                     /\ last' = [Attempt(entries[idx], card_id) EXCEPT
                                     !.detail = resp.status, !.image = "pending",
                                     !.record = record]
                     /\ pc' = AfterDetails(resp)
    /\ attempted' = [attempted EXCEPT ![entries[idx].img_url] = @ + 1]
    /\ netLog' = Append(netLog, "detail")
    /\ UNCHANGED <<downloaded_count, page_num, entries, idx, metadata, table0,
                   files, delays, requested, lastPage, saves>>
    /\ UNCHANGED applied

\* Lines 362-387: the image is requested and written; on a save the counter
\* is incremented and the metadata row appended; then the delay.
DownloadImage ==
    /\ pc = "download"
    /\ \E resp \in ImageResponses, row_written \in BOOLEAN :
          LET card_id == card_id_of[entries[idx].card_url]
              outcome == download_image(resp)
              saved   == outcome = "saved"
              count   == CountAfter(downloaded_count, saved)
          IN  /\ saved \/ row_written
              /\ files' = IF saved THEN files \cup {FileName(card_id, resp)} ELSE files
              /\ downloaded_count' = count
              /\ metadata' = RowsAfter(metadata, saved, row_written, details)
              /\ last' = [last EXCEPT
                    !.image = outcome,
                    !.ctype = IF resp.status = "ok" THEN resp.body.ctype ELSE <<>>,
                    !.meta = IF ~saved THEN "none"
                             ELSE IF row_written THEN "written" ELSE "failed"]
              /\ saves' = IF saved THEN Append(saves, last') ELSE saves
              /\ pc' = ForNext(count, entries, idx + 1)
    /\ netLog' = netLog \o <<"image", "delay">>
    /\ delays' = delays + 1
    /\ idx' = idx + 1
    /\ UNCHANGED <<seen_urls, page_num, entries, details, table0, requested,
                   lastPage, attempted>>
    /\ UNCHANGED applied

\* Lines 389-397: the delay before the next page.
NextPage ==
    /\ pc = "next"
    /\ delays' = delays + 1
    /\ netLog' = Append(netLog, "delay")
    /\ page_num' = page_num + 1
    /\ pc' = WhileTest(downloaded_count)
    /\ UNCHANGED <<downloaded_count, seen_urls, entries, idx, details, metadata,
                   table0, files, requested, lastPage, attempted, last, saves>>
    /\ UNCHANGED applied

Next ==
    \/ PrepareHeader
    \/ FetchPageFailed
    \/ FetchPage
    \/ SkipDuplicate
    \/ SkipNoId
    \/ FetchCardDetails
    \/ DownloadImage
    \/ NextPage

Spec == Init /\ [][Next]_vars

(***************************************************************************)
(* Derived observations.                                                   *)
(***************************************************************************)
\* The data rows this run appended to METADA_FILE, in file order.
RunRows == SubSeq(metadata, Len(table0) + 1, Len(metadata))

\* The confirmed saves whose metadata row could not be written.
FailedWrites == {i \in 1..Len(saves) : saves[i].meta = "failed"}

(***************************************************************************)
(* C1. The quota counter stays between 0 and the configured maximum, and   *)
(* main is past its while loop exactly when the counter equals the         *)
(* maximum.                                                                *)
(***************************************************************************)
C1_QuotaBoundAndTerminal ==
    /\ downloaded_count \in 0..MAX_IMAGES
    /\ (pc = "done") <=> (downloaded_count = MAX_IMAGES)

\* The quota is met while a candidate of the current page is still unprocessed.
C1_Witness ==
    /\ pc = "done"
    /\ downloaded_count = MAX_IMAGES
    /\ idx <= Len(entries)

(***************************************************************************)
(* C2. Every distinct image URL passes the seen-set test at most once in a *)
(* run, so it gets at most one processing attempt, however often it is     *)
(* listed on one page or on several pages.                                 *)
(***************************************************************************)
C2_AtMostOneAttemptPerUrl ==
    \A u \in ImageUrls : attempted[u] <= 1

\* On a later page, a listed image URL that had its attempt before was
\* passed over: the candidate before idx is not the latest attempt.
C2_Witness ==
    /\ Len(requested) >= 2
    /\ idx > 1
    /\ idx - 1 <= Len(entries)
    /\ attempted[entries[idx - 1].img_url] = 1
    /\ last.img_url # entries[idx - 1].img_url
    /\ \E u \in ImageUrls : u # entries[idx - 1].img_url /\ attempted[u] = 1

(***************************************************************************)
(* C3. The number of data rows the run appended is at most the number of   *)
(* confirmed image saves, and equals the confirmed saves minus the         *)
(* metadata writes that failed.                                            *)
(***************************************************************************)
C3_RowsMatchSaves ==
    /\ Len(saves) = downloaded_count
    /\ Len(RunRows) <= downloaded_count
    /\ Len(RunRows) + Cardinality(FailedWrites) = downloaded_count

\* Two confirmed saves, the row of one of them lost to a failed write.
C3_Witness ==
    /\ downloaded_count = 2
    /\ Cardinality(FailedWrites) = 1
    /\ Len(RunRows) = 1

(***************************************************************************)
(* C4. Once the quota counter has reached the maximum, nothing more is     *)
(* processed or requested: no seen-set insertion, no attempt, no listing,  *)
(* detail or image request, no file, no row, whatever is left on the page  *)
(* or on further pages. The candidate that filled the quota is the last    *)
(* one processed, and the saves are exactly the counted ones.              *)
(***************************************************************************)
C4_NothingAfterQuota ==
    /\ [](downloaded_count >= MAX_IMAGES =>
            /\ last.image = "saved"
            /\ Last(saves) = last
            /\ Len(saves) = MAX_IMAGES)
    /\ [][downloaded_count >= MAX_IMAGES =>
            UNCHANGED <<seen_urls, attempted, requested, netLog, page_num,
                        files, metadata, downloaded_count, last, saves>>]_vars

\* The quota is met with a new, unprocessed candidate left on the page and
\* further pages not requested.
C4_Witness ==
    /\ downloaded_count = MAX_IMAGES
    /\ idx <= Len(entries)
    /\ entries[idx].img_url \notin seen_urls
    /\ page_num < MaxPage

(***************************************************************************)
(* C5. Listing pages are requested in increasing order from page 1; the    *)
(* candidates of a page are taken in the order of the extractor, one       *)
(* position at a time, and a page is requested only when the one before    *)
(* has been gone through; the rows of the run are the rows of the saves    *)
(* whose write succeeded, in save order.                                   *)
(***************************************************************************)
WrittenSaves == SelectSeq(saves, LAMBDA a : a.meta = "written")

C5_Order ==
    /\ [](/\ \A i \in 1..Len(requested) : requested[i] = i
          /\ RunRows = [i \in 1..Len(WrittenSaves) |-> RowOf(WrittenSaves[i].record)])
    /\ [][/\ requested' # requested =>
                /\ idx = Len(entries) + 1
                /\ idx' = IF lastPage' = "ok" THEN 1 ELSE idx
                /\ requested' = Append(requested, Len(requested) + 1)
          /\ requested' = requested => idx' \in {idx, idx + 1}
          /\ attempted' # attempted =>
                /\ idx <= Len(entries)
                /\ last'.img_url = entries[idx].img_url
                /\ attempted' = [attempted EXCEPT ![entries[idx].img_url] = @ + 1]
          /\ saves' # saves =>
                /\ saves' = Append(saves, last')
                /\ last'.img_url = entries[idx].img_url
                /\ idx' = idx + 1]_vars

\* Two rows with different ids, written from saves on two pages.
C5_Witness ==
    /\ Len(RunRows) = 2
    /\ RunRows[1][1] # RunRows[2][1]
    /\ RunRows[1][1] = saves[1].card_id
    /\ Len(requested) >= 2
    /\ Len(entries) = 2
    /\ idx = 3

(***************************************************************************)
(* C6. No failure of a listing request, a detail request, an image         *)
(* request, the content-type validation, an image write or a row write     *)
(* ends the run: main goes on with the image of the same candidate (after  *)
(* a failed detail request), with the next candidate or, the page gone     *)
(* through, the next page (image and row failures), or with the next page  *)
(* (listing request), and is past its loop only with the quota met.        *)
(***************************************************************************)
ImageFailures == {"fetch_failed", "not_image", "write_failed"}

C6_FailuresDoNotAbortAmended ==
    /\ [](/\ pc # "aborted"
          /\ pc = "done" => downloaded_count = MAX_IMAGES)
    /\ [][/\ (requested' # requested /\ lastPage' = "error") =>
                (pc' = "page" /\ page_num' = page_num + 1)
          /\ (attempted' # attempted /\ last'.detail = "error") =>
                (pc' = "download" /\ idx' = idx)
          /\ (last.image = "pending" /\ last'.image \in ImageFailures) =>
                (pc' \in {"cand", "next"} /\ idx' = idx + 1)
          /\ (last.image = "pending" /\ last'.meta = "failed") =>
                (pc' \in {"cand", "next", "done"} /\ idx' = idx + 1)]_vars

\* C6 as stated: after a failed detail request too, main is at the next
\* candidate.
C6_FailuresDoNotAbortAsStated ==
    /\ [](/\ pc # "aborted"
          /\ pc = "done" => downloaded_count = MAX_IMAGES)
    /\ [][/\ (requested' # requested /\ lastPage' = "error") =>
                (pc' = "page" /\ page_num' = page_num + 1)
          /\ (attempted' # attempted /\ last'.detail = "error") =>
                (pc' \in {"cand", "next"} /\ idx' = idx + 1)
          /\ (last.image = "pending" /\ last'.image \in ImageFailures) =>
                (pc' \in {"cand", "next"} /\ idx' = idx + 1)
          /\ (last.image = "pending" /\ last'.meta = "failed") =>
                (pc' \in {"cand", "next", "done"} /\ idx' = idx + 1)]_vars

\* A run that went through a failed row write, a failed detail request, a
\* failed image write and a failed listing request, and goes on.
C6_Witness ==
    /\ \E i \in 1..Len(saves) : saves[i].meta = "failed"
    /\ last.detail = "error"
    /\ last.image = "write_failed"
    /\ lastPage = "error"
    /\ pc = "page"
    /\ page_num <= MaxPage

(***************************************************************************)
(* C7. A listing request of page n that fails is followed by exactly one   *)
(* delay and then by the request of page n+1; the seen set, the counter,   *)
(* the image files, the metadata table and the attempts are as before.     *)
(***************************************************************************)
C7_FailedPage ==
    [][/\ (requested' # requested /\ lastPage' = "error") =>
              /\ Last(requested') = page_num
              /\ delays' = delays + 1
              /\ netLog' = LogPage(netLog) \o <<"delay">>
              /\ page_num' = page_num + 1
              /\ pc' = "page"
              /\ UNCHANGED <<seen_urls, downloaded_count, files, metadata,
                             attempted, last, saves, entries, idx>>
       /\ lastPage = "error" =>
              /\ requested' = Append(requested, Last(requested) + 1)
              /\ Len(netLog') >= 2
              /\ netLog'[1] = "delay" /\ netLog'[2] = "page"]_vars

\* Page 2 failed after page 1 had given saves; page 3 is to be requested.
C7_Witness ==
    /\ lastPage = "error"
    /\ Last(requested) = 2
    /\ page_num = 3
    /\ downloaded_count = 1
    /\ seen_urls # {}

(***************************************************************************)
(* C8. An image response whose declared content type is text/html (no      *)
(* "image" in it) is not saved: no file is written, no row appended, the   *)
(* counter stays, and main goes on with the next candidate or page.        *)
(***************************************************************************)
C8_NonImageSkipped ==
    [][(last.image = "pending" /\ last'.ctype = <<"text", "html">>) =>
          /\ last'.image = "not_image"
          /\ last'.meta = "none"
          /\ UNCHANGED <<files, metadata, downloaded_count, saves, seen_urls>>
          /\ delays' = delays + 1
          /\ idx' = idx + 1
          /\ pc' = IF idx' <= Len(entries) THEN "cand" ELSE "next"]_vars

\* A text/html answer for the first candidate of a page; the second is next.
C8_Witness ==
    /\ last.ctype = <<"text", "html">>
    /\ last.image = "not_image"
    /\ pc = "cand"
    /\ idx = 2
    /\ files = {}
    /\ downloaded_count = 0

(***************************************************************************)
(* C9. After a failed detail request the record holds the id of the        *)
(* detail URL and nothing else, the image is requested all the same, and   *)
(* a saved image increments the counter; the row of exactly that record    *)
(* is appended when the write of the row succeeds, and no row is appended  *)
(* when it fails.                                                          *)
(***************************************************************************)
DetailFailed == last.detail = "error" /\ last.image = "pending"

C9_DetailFailureAmended ==
    /\ [](DetailFailed =>
            /\ pc = "download"
            /\ details = InitialDetails(entries[idx].card_url)
            /\ details.card_id = extract_card_id(entries[idx].card_url)
            /\ details.card_id # NoId
            /\ Last(netLog) = "detail")
    /\ [][DetailFailed =>
            /\ last'.image # "pending"
            /\ SubSeq(netLog', Len(netLog) + 1, Len(netLog')) = <<"image", "delay">>
            /\ last'.image = "saved" =>
                  /\ downloaded_count' = downloaded_count + 1
                  /\ last'.meta = "written" => metadata' = Append(metadata, RowOf(details))
                  /\ last'.meta = "failed" => metadata' = metadata
                  /\ last'.meta \in {"written", "failed"}]_vars

\* C9 as stated: a saved image always gets its row.
C9_DetailFailureAsStated ==
    [][DetailFailed =>
          /\ last'.image # "pending"
          /\ last'.image = "saved" =>
                /\ downloaded_count' = downloaded_count + 1
                /\ metadata' = Append(metadata, RowOf(details))]_vars

\* The image of a candidate whose detail request failed was saved and its
\* row, the id alone, written.
C9_Witness ==
    /\ last.detail = "error"
    /\ last.image = "saved"
    /\ last.meta = "written"
    /\ Len(RunRows) >= 1
    /\ Last(RunRows) = << last.card_id, "", "", "", "", "", "", "", "" >>
    /\ last.card_id # NoId
    /\ downloaded_count >= 1

(***************************************************************************)
(* C10. A delay follows every processing attempt and every listing         *)
(* request, so that a request issued after a listing request or after an   *)
(* attempt has a delay right before it (the image request of an attempt    *)
(* follows its own detail request); a duplicate costs no delay.            *)
(***************************************************************************)
Requests == {"page", "detail", "image"}

C10_DelayBeforeEveryRequest ==
    \A i \in 2..Len(netLog) :
        netLog[i] \in Requests =>
            \/ netLog[i - 1] = "delay"
            \/ (netLog[i] = "image" /\ netLog[i - 1] = "detail")

\* ---------------------------------------------------------------------------
\* C11: the header row of the metadata table.

\* C11, as stated: every data row the run appends sits in a table whose first
\* row is the header row.
C11_HeaderFirstAsStated ==
    RunRows # <<>> => metadata[1] = HeaderRow

\* C11, amended: when the metadata table is missing or empty at start, the
\* run writes the header row once, as the first row, unless that write fails,
\* in which case the table stays empty and the run goes on; when the table is
\* non-empty at start it is left as it is.  No later step writes a header row
\* or touches the rows already there, so the data rows of the run sit under
\* the header whenever the table was left non-empty by the header step.
C11_HeaderOnceAmended ==
    [][ /\ (pc = "start" /\ metadata # <<>>) => metadata' = metadata
        /\ (pc = "start" /\ metadata = <<>>) => metadata' \in { <<HeaderRow>>, <<>> }
        /\ pc = "start" => table0' = metadata'
        /\ pc # "start" =>
              /\ table0' = table0
              /\ \/ metadata' = metadata
                 \/ /\ Len(metadata') = Len(metadata) + 1
                    /\ SubSeq(metadata', 1, Len(metadata)) = metadata
                    /\ Last(metadata') # HeaderRow
        /\ (pc' # "start" /\ table0' # <<>>) => metadata'[1] = HeaderRow
      ]_vars

\* A run that found no table wrote the header row and then a data row under it.
C11_Witness ==
    /\ table0 = <<HeaderRow>>
    /\ Len(metadata) >= 2
    /\ metadata[1] = HeaderRow
    /\ metadata[2] # HeaderRow

\* ---------------------------------------------------------------------------
\* C12: the files of the images directory against the quota counter.

\* A listing whose cards share a numeric id: /a-1 and /c-1.
SameIdAnchors ==
    { Anchor(CardA, Src("relative", "i1")),
      Anchor(CardC, Src("absolute", "i2")),
      Anchor(CardNoId, Src("relative", "i3")),
      Anchor(CardC, Src("relative", PLACEHOLDER_URL)) }

SameIdResponses ==
    {HttpError} \cup {HttpOk(doc) : doc \in SeqsUpTo(SameIdAnchors, MaxAnchors)}

FetchPageSameId == FetchListing(SameIdResponses)

NextSameId ==
    \/ PrepareHeader
    \/ FetchPageFailed
    \/ FetchPageSameId
    \/ SkipDuplicate
    \/ SkipNoId
    \/ FetchCardDetails
    \/ DownloadImage
    \/ NextPage

SpecSameId == Init /\ [][NextSameId]_vars

\* The file names of the confirmed saves (the images served are PNG).
SavedNames == {[basename |-> saves[i].card_id, ext |-> ".png"] : i \in 1..Len(saves)}

C13_NoIdSkipped ==
    [][ ( /\ pc = "cand"
          /\ entries[idx].img_url \notin seen_urls
          /\ entries[idx].card_url = CardNoId )
        => /\ seen_urls' = seen_urls \cup {entries[idx].img_url}
           /\ netLog' = Append(netLog, "delay")
           /\ delays' = delays + 1
           /\ metadata' = metadata
           /\ files' = files
           /\ downloaded_count' = downloaded_count
           /\ details' = details
           /\ saves' = saves
           /\ last'.detail = "none" /\ last'.image = "none" /\ last'.meta = "none"
           /\ entries' = entries
           /\ idx' = idx + 1
           /\ pc' = IF idx + 1 <= Len(entries) THEN "cand" ELSE "next"
      ]_vars

\* A card without id was gone through: its image URL is seen, nothing was
\* requested for it, and the controller is at the next candidate.
C13_Witness ==
    /\ last.img_url = "i3"
    /\ last.card_id = NoId
    /\ "i3" \in seen_urls
    /\ last.detail = "none" /\ last.image = "none"
    /\ netLog = <<"page", "delay">>
    /\ pc = "cand"
    /\ idx = 2

\* ---------------------------------------------------------------------------
\* C14: the quota counter changes only in the step in which an image save is
\* confirmed, and then by exactly one; every other step (listing request,
\* duplicate or no-id skip, detail request, failed image attempt, delay)
\* leaves it unchanged.
C14_CounterFrame ==
    [][ /\ downloaded_count' # downloaded_count =>
              /\ downloaded_count' = downloaded_count + 1
              /\ pc = "download"
              /\ last'.image = "saved"
              /\ saves' = Append(saves, last')
              /\ [basename |-> last'.card_id, ext |-> ".png"] \in files'
        /\ (pc = "download" /\ last'.image = "saved") =>
              downloaded_count' = downloaded_count + 1
        /\ (pc = "download" /\ last'.image \in ImageFailures) =>
              downloaded_count' = downloaded_count
        /\ pc # "download" => downloaded_count' = downloaded_count
      ]_vars

\* One image was saved and counted; the image attempt of a later candidate
\* failed and left the counter at one.
C14_Witness ==
    /\ downloaded_count = 1
    /\ Len(saves) = 1
    /\ last.image \in ImageFailures
    /\ last.img_url # saves[1].img_url

\* ---------------------------------------------------------------------------
\* C15: the quota is the only end of the crawl.

\* main is sequential and each of its steps ends: a request ends with a
\* response or, after the timeout and the retries of the session, with an
\* exception; a delay ends; a file write ends.  So a step that is possible is
\* eventually taken.
FairSpec == Spec /\ WF_vars(Next)

\* C15: main is past its while loop only with the quota met; the page number
\* never decreases; and from every page number n the crawl either meets the
\* quota or requests page n and moves on to page n + 1 (for every n up to
\* MaxPage: nothing but the quota stops the page number from growing).
C15_OnlyQuotaEndsCrawl ==
    /\ [](pc = "done" => downloaded_count = MAX_IMAGES)
    /\ [](downloaded_count < MAX_IMAGES => pc # "done")
    /\ [][page_num' >= page_num]_vars
    /\ \A n \in 1..MaxPage :
          (page_num = n) ~> \/ pc = "done"
                            \/ /\ page_num = n + 1
                               /\ Len(requested) >= n
                               /\ requested[n] = n

\* The quota was not met and every page up to MaxPage was requested in turn:
\* the crawl is still at its while loop, about to request page MaxPage + 1.
C15_Witness ==
    /\ downloaded_count < MAX_IMAGES
    /\ page_num = MaxPage + 1
    /\ requested = [i \in 1..MaxPage |-> i]
    /\ pc = "page"

\* ---------------------------------------------------------------------------
\* The helper functions applied on their own: main is not running, and its
\* variables stay as they are before a run.
mainVars == <<downloaded_count, seen_urls, page_num, entries, idx, details,
              metadata, table0, files, delays, requested, lastPage, attempted,
              last, saves, netLog>>

MainIdle ==
    /\ downloaded_count = 0
    /\ seen_urls = {}
    /\ page_num = 1
    /\ entries = <<>>
    /\ idx = 1
    /\ details = InitialDetails(<<>>)
    /\ metadata = <<>>
    /\ table0 = <<>>
    /\ files = {}
    /\ delays = 0
    /\ requested = <<>>
    /\ lastPage = "none"
    /\ attempted = [u \in ImageUrls |-> 0]
    /\ last = Attempt([img_url |-> "", card_url |-> <<>>], NoId)
    /\ saves = <<>>
    /\ netLog = <<>>

\* ---------------------------------------------------------------------------
\* C16: duplicate label/value pairs in the detail extractor.

\* Label/value pairs on one detail page.
MaxItems == 2

ItemLabels ==
    { <<"Data", "rozhdeniya">>, <<"Mesto", "rozhdeniya">>, <<"Data", "smerti">>,
      <<"Mesto", "smerti">>, <<"Mesto", "gibeli">>, <<"Zvanie">>, <<>> }

ItemValues == {"", "x", "y"}

ItemLists == SeqsUpTo({Item(l, v) : l \in ItemLabels, v \in ItemValues}, MaxItems)

InitDetails ==
    /\ pc = "parse"
    /\ arg \in {DetailDoc("Ivanov Ivan", items, "", "", "") : items \in ItemLists}
    /\ result = <<>>
    /\ MainIdle

\* fetch_card_details on a detail page that was fetched.
ApplyFetchCardDetails ==
    /\ pc = "parse"
    /\ result' = fetch_card_details(CardA, HttpOk(arg))
    /\ pc' = "parsed"
    /\ UNCHANGED <<arg, mainVars>>

NextDetails == ApplyFetchCardDetails

SpecDetails == InitDetails /\ [][NextDetails]_vars

Categories == {"birth_date", "birth_place", "death_date", "death_place"}

\* The category a label falls in, "" when it falls in none.
CategoryOf(label) ==
    CASE label = <<"Data", "rozhdeniya">>  -> "birth_date"
      [] label = <<"Mesto", "rozhdeniya">> -> "birth_place"
      [] label = <<"Data", "smerti">>      -> "death_date"
      [] label \in {<<"Mesto", "smerti">>, <<"Mesto", "gibeli">>} -> "death_place"
      [] OTHER -> ""

\* The positions of the pairs of items that have a label and a value and
\* fall in category cat.
Matching(items, cat) ==
    {i \in 1..Len(items) :
        /\ items[i].label # <<>>
        /\ items[i].value # ""
        /\ CategoryOf(items[i].label) = cat}

Min(S) == CHOOSE i \in S : \A j \in S : i <= j

Max(S) == CHOOSE i \in S : \A j \in S : j <= i

\* C16, as stated: when several pairs with a label and a value match a
\* category, the field holds the value of the first of them.
C16_FirstMatchWinsAsStated ==
    pc = "parsed" =>
        \A cat \in Categories :
            Matching(arg.items, cat) # {} =>
                result[cat] = arg.items[Min(Matching(arg.items, cat))].value

\* C16, amended: when several pairs with a label and a value match a
\* category, the field holds the value of the last of them in document
\* order: every later pair of the category overwrites the field.  A category
\* no pair matches stays empty.
C16_LastMatchWinsAmended ==
    pc = "parsed" =>
        \A cat \in Categories :
            result[cat] = IF Matching(arg.items, cat) = {} THEN ""
                          ELSE arg.items[Max(Matching(arg.items, cat))].value

\* A page with two dates of birth was parsed: the field holds the second.
C16_Witness ==
    /\ pc = "parsed"
    /\ arg.items = << Item(<<"Data", "rozhdeniya">>, "x"), Item(<<"Data", "rozhdeniya">>, "y") >>
    /\ result.birth_date = "y"

\* ---------------------------------------------------------------------------
\* C17: id extraction on its own.

\* Characters of a card URL after its origin (https://polkrf.ru).
MaxUrlLen == 5

UrlChars == {"/", "-", "a", "1", "2", "?", "#", ";"}

\* urljoin(BASE_URL, href) gives an absolute URL: what follows the origin is
\* empty or starts a path, a query or a fragment.
CardUrlTexts ==
    {u \in SeqsUpTo(UrlChars, MaxUrlLen) : u = <<>> \/ u[1] \in {"/", "?", "#"}}

InitCardId ==
    /\ pc = "extract"
    /\ arg \in CardUrlTexts
    /\ result = <<>>
    /\ MainIdle

ApplyExtractCardId ==
    /\ pc = "extract"
    /\ result' = extract_card_id(arg)
    /\ pc' = "extracted"
    /\ UNCHANGED <<arg, mainVars>>

NextCardId == ApplyExtractCardId

SpecCardId == InitCardId /\ [][NextCardId]_vars

\* The last segment of the path of url, trailing slashes dropped.
LastSegment(url) == LastPart(RStrip(UrlPath(url), "/"), "/")

\* The digits a text ends with: its longest suffix made of digits only.
TrailingRun(s) ==
    LET runs == {k \in 0..Len(s) : \A i \in (Len(s) - k + 1)..Len(s) : s[i] \in DigitChars}
    IN  SubSeq(s, Len(s) - Max(runs) + 1, Len(s))

\* C17: id extraction returns the numeric run that ends the last segment of
\* the path, and nothing exactly when that segment ends with no numeric run;
\* a query string or a fragment added to the URL does not change the result.
C17_TrailingNumericRun ==
    pc = "extracted" =>
        /\ result = TrailingRun(LastSegment(arg))
        /\ result = NoId <=> TrailingRun(LastSegment(arg)) = <<>>
        /\ ("?" \notin {arg[i] : i \in 1..Len(arg)} /\ "#" \notin {arg[i] : i \in 1..Len(arg)})
              => /\ extract_card_id(arg \o <<"?", "1">>) = result
                 /\ extract_card_id(arg \o <<"#", "1">>) = result

\* ---------------------------------------------------------------------------
\* C18: the listing extractor on its own.

\* Card anchors on one listing document given to the extractor.
MaxCards == 3

\* Card anchors of every shape the extractor tells apart: with an image,
\* with the placeholder image, without href, without image element, with an
\* image element whose src is missing or blank.
ListingAnchors ==
    Anchors \cup
    { Anchor(CardB, Src("absolute", PLACEHOLDER_URL)),
      Anchor(<<>>, Src("relative", "i1")),
      Anchor(CardA, Src("none", "")),
      Anchor(CardB, Src("blank", "")) }

InitListing ==
    /\ pc = "select"
    /\ arg \in SeqsUpTo(ListingAnchors, MaxCards)
    /\ result = <<>>
    /\ MainIdle

\* fetch_image_urls_from_page on a listing page that was fetched.
ApplyFetchImageUrls ==
    /\ pc = "select"
    /\ result' = fetch_image_urls_from_page(arg)
    /\ pc' = "selected"
    /\ UNCHANGED <<arg, mainVars>>

NextListing == ApplyFetchImageUrls

SpecListing == InitListing /\ [][NextListing]_vars

\* The candidates of the anchors of doc that satisfy Keep, in document order.
CandidatesOf(doc, Keep(_)) ==
    LET kept == SelectSeq(doc, Keep)
    IN  [i \in 1..Len(kept) |-> [img_url |-> kept[i].img.path, card_url |-> kept[i].href]]

IsPlaceholder(anchor) == anchor.img.path = PLACEHOLDER_URL

\* C18, as stated: the candidates are in the document order of their card
\* anchors, and the cards left out are exactly those whose image URL is the
\* placeholder.
C18_OnlyPlaceholderLeftOutAsStated ==
    pc = "selected" =>
        result = CandidatesOf(arg, LAMBDA a : ~IsPlaceholder(a))

\* C18, amended: the candidates are in the document order of their card
\* anchors, and the cards left out are exactly those without href, without
\* image element, with a missing or blank image src, or whose image URL is
\* the placeholder; a card left out never drops the cards after it.
C18_MalformedAndPlaceholderLeftOutAmended ==
    pc = "selected" =>
        result = CandidatesOf(arg, LAMBDA a : /\ a.href # <<>>
                                              /\ a.img.form \in {"relative", "absolute"}
                                              /\ ~IsPlaceholder(a))

\* Three cards, the second the placeholder: the first and the third are the
\* candidates, in that order.
C18_Witness ==
    /\ pc = "selected"
    /\ Len(arg) = 3
    /\ IsPlaceholder(arg[2])
    /\ result = << [img_url |-> "i1", card_url |-> CardA],
                   [img_url |-> "i2", card_url |-> CardB] >>

\* ---------------------------------------------------------------------------
\* C19: every metadata row appended during a run has a non-empty card_id,
\* the id extracted from the detail URL of its candidate, and that id is the
\* basename under which the image whose save triggered the row was written.
C19_RowIdIsFileBasename ==
    /\ [](\A i \in 1..Len(RunRows) :
              /\ RunRows[i][1] # NoId
              /\ RunRows[i][1] = WrittenSaves[i].card_id
              /\ \E f \in files : f.basename = RunRows[i][1])
    /\ [][ Len(metadata') = Len(metadata) + 1 /\ pc # "start" =>
              /\ Last(metadata')[1] = extract_card_id(entries[idx].card_url)
              /\ Last(metadata')[1] # NoId
              /\ files' \ files \subseteq {[basename |-> Last(metadata')[1], ext |-> ".png"]}
              /\ [basename |-> Last(metadata')[1], ext |-> ".png"] \in files'
              /\ downloaded_count' = downloaded_count + 1
         ]_vars

\* A row was appended after a detail request that failed: its card_id is the
\* id of the candidate's detail URL, the basename of the file written.
C19_Witness ==
    /\ Len(RunRows) = 1
    /\ last.detail = "error"
    /\ last.meta = "written"
    /\ RunRows[1][1] = <<"2">>
    /\ files = {[basename |-> <<"2">>, ext |-> ".png"]}

====
